---- MODULE Spec2Model ----
(***************************************************************************)
(* Tic-tac-toe against the minimax engine of src/tic_tac_toe.py.           *)
(*                                                                         *)
(* The board is the Python list of 9 cells, indexed 0..8 as in the source. *)
(* Spec is play(): symbol choice, rounds of alternating turns, the replay  *)
(* prompts.  SpecSearch applies ai_move to every board of alternating play *)
(* and lets the engine play both sides from there.  SpecVisit follows the  *)
(* recursion of minimax from the empty board.  FairSpec is play() and the  *)
(* recursion, each run to its end.                                         *)
(***************************************************************************)
EXTENDS Integers, Sequences, FiniteSets, TLC

VARIABLES
  pc,            \* where the program stands: "symbol" (line 103), "move" (line 117),
                 \* "again" (line 143), "first" (line 148), "exit" (lines 82, 146);
                 \* "call", "returned", "over" in SpecSearch; "visit" in SpecVisit
  board,         \* the round's board (line 113)
  human_player,  \* line 101
  ai_player,     \* line 106
  turn,          \* who starts the round (lines 109, 150-155)
  current,       \* whose move it is (lines 115, 140)
  game_over,     \* line 114
  out,           \* the last message printed
  prev,          \* history: the board before the last placement or search
  last,          \* history: the last placement or search result
  placed,        \* history: the number of marks placed in this round
  ai_winning,    \* history: an AI turn of this round began on a board the AI wins by force
  origin,        \* history: the board the round or the simulation started from
  first          \* the answer to "Who goes first next game?" (line 148)

vars == <<pc, board, human_player, ai_player, turn, current, game_over, out,
          prev, last, placed, ai_winning, origin, first>>

-----------------------------------------------------------------------------
(* The board: lines 3, 16-31.                                              *)

Empty == " "
Marks == {"X", "O"}
None == "None"                \* Python's None where a mark is expected
NoMove == -1                  \* Python's None where a cell index is expected
IndexError == -2              \* available_moves(board)[0] on a full board raises
ValueError == -3              \* int(raw) raises on digits that are not decimal
Cells == 0..8
EmptyBoard == [i \in Cells |-> Empty]
Other(p) == IF p = "X" THEN "O" ELSE "X"

AllCells == <<0, 1, 2, 3, 4, 5, 6, 7, 8>>

\* The function f itself, held as the list of its values: each value is then
\* computed once, not at every application.
Listed(f) == f @@ << >>

available_moves(b) == SelectSeq(AllCells, LAMBDA i : b[i] = Empty)

wins == << <<0,1,2>>, <<3,4,5>>, <<6,7,8>>,
           <<0,3,6>>, <<1,4,7>>, <<2,5,8>>,
           <<0,4,8>>, <<2,4,6>> >>

\* A slip of the triple test: the comparison with " " left out.
complete_any(b, t) == b[t[1]] = b[t[2]] /\ b[t[2]] = b[t[3]]

\* line 26
complete(b, t) == b[t[1]] = b[t[2]] /\ b[t[2]] = b[t[3]] /\ b[t[1]] # Empty

RECURSIVE winner_from(_, _)
winner_from(b, k) ==
  IF k > Len(wins) THEN None
  ELSE IF complete(b, wins[k]) THEN b[wins[k][1]]
  ELSE winner_from(b, k + 1)

winner(b) == winner_from(b, 1)

\* A slip of the draw test: one Empty cell tolerated.
is_draw_early(b) == Cardinality({i \in Cells : b[i] = Empty}) <= 1 /\ winner(b) = None

\* lines 30-31
is_draw(b) == (\A i \in Cells : b[i] # Empty) /\ winner(b) = None

Count(b, m) == Cardinality({i \in Cells : b[i] = m})

-----------------------------------------------------------------------------
(* minimax: lines 33-68.  A result is the pair (score, move) of line 35    *)
(* together with the board as the call leaves it, since the search writes  *)
(* into the caller's list and undoes each write.                           *)

Result(score, move, b) == [score |-> score, move |-> move, board |-> b]

\* Slips of the scoring and of the comparisons, used to show that the properties
\* below depend on them.
win_score_as_draw(depth) == 0
loss_score_flat(depth) == -10
loss_score_as_win(depth) == 10 - depth
win_score_flat(depth) == 10
initial_best_zero(is_maximizing) == 0
win_score_deeper(depth) == 10 + depth
loss_score_sooner(depth) == 0 - 10 - depth
improves_always_greater(is_maximizing, score, best_score) == score > best_score
improves_or_equal(is_maximizing, score, best_score) ==
  IF is_maximizing THEN score >= best_score ELSE score <= best_score

\* lines 40-43
win_score(depth) == 10 - depth
loss_score(depth) == depth - 10

\* lines 48, 59
initial_best(is_maximizing) == IF is_maximizing THEN -999 ELSE 999

\* lines 54, 65
improves(is_maximizing, score, best_score) ==
  IF is_maximizing THEN score > best_score ELSE score < best_score

\* lines 51, 62
place(b, move, mark) == [b EXCEPT ![move] = mark]

\* lines 53, 64
undo(b, move) == [b EXCEPT ![move] = Empty]

\* A call minimax(b, depth, depth even, ai_player, other mark) as one integer, the
\* index of the table of results below.
Digit(m) == IF m = Empty THEN 0 ELSE IF m = "X" THEN 1 ELSE 2
Code(b) == Digit(b[0]) + 3 * Digit(b[1]) + 9 * Digit(b[2]) + 27 * Digit(b[3])
           + 81 * Digit(b[4]) + 243 * Digit(b[5]) + 729 * Digit(b[6])
           + 2187 * Digit(b[7]) + 6561 * Digit(b[8])
Enc(b, depth, ai) == (Code(b) * 10 + depth) * 2 + (IF ai = "X" THEN 0 ELSE 1)
MarkOf(d) == IF d = 0 THEN Empty ELSE IF d = 1 THEN "X" ELSE "O"
DecBoard(n) == Listed([i \in Cells |-> MarkOf(((n \div 20) \div (3 ^ i)) % 3)])
DecDepth(n) == (n \div 2) % 10
DecAi(n) == IF n % 2 = 0 THEN "X" ELSE "O"

\* The for loops of lines 50-56 and 61-67 from the k-th available move on; sub
\* holds the results of the recursive calls of lines 52 and 63.
RECURSIVE search_loop(_, _, _, _, _, _, _, _, _, _)
search_loop(sub, b, depth, is_maximizing, ai_player_, human_player_, moves, k, best_score, best_move) ==
  IF k > Len(moves) THEN Result(best_score, best_move, b)
  ELSE CHOOSE res \in
    { IF improves(is_maximizing, r.score, best_score)
      THEN search_loop(sub, undo(r.board, moves[k]), depth, is_maximizing, ai_player_,
                       human_player_, moves, k + 1, r.score, moves[k])
      ELSE search_loop(sub, undo(r.board, moves[k]), depth, is_maximizing, ai_player_,
                       human_player_, moves, k + 1, best_score, best_move)
      : r \in { sub[Enc(place(b, moves[k],
                              IF is_maximizing THEN ai_player_ ELSE human_player_),
                        depth + 1, ai_player_)] } } : TRUE

\* The body of minimax, lines 39-68.
minimax_body(sub, b, depth, is_maximizing, ai_player_, human_player_) ==
  CHOOSE res \in
    { IF win = ai_player_ THEN Result(win_score(depth), NoMove, b)
      ELSE IF win = human_player_ THEN Result(loss_score(depth), NoMove, b)
      ELSE IF is_draw(b) THEN Result(0, NoMove, b)
      ELSE search_loop(sub, b, depth, is_maximizing, ai_player_, human_player_,
                       available_moves(b), 1, initial_best(is_maximizing), NoMove)
      : win \in {winner(b)} } : TRUE

\* The calls the search can make on boards with e Empty cells: ai_move calls with
\* depth 0 and is_maximizing (line 72), each recursive call adds 1 to depth and
\* flips is_maximizing (lines 52, 63), so is_maximizing is "depth is even" and the
\* side to move has placed as many marks as the other side, or one fewer.
SearchBoards == {b \in [Cells -> Marks \cup {Empty}] :
                   Count(b, "X") - Count(b, "O") \in {-1, 0, 1}}
Calls(e) ==
  {Enc(c[1], c[2], c[3]) :
     c \in {c \in {b \in SearchBoards : Count(b, Empty) = e} \X (0..(9 - e)) \X Marks :
              LET mover == IF c[2] % 2 = 0 THEN c[3] ELSE Other(c[3])
              IN  Count(c[1], mover) <= Count(c[1], Other(mover))}}

\* The results of all calls on boards with e Empty cells, each computed once from
\* the results on boards with e - 1 Empty cells.
Results(sub, e) ==
  Listed([n \in Calls(e) |-> minimax_body(sub, DecBoard(n), DecDepth(n),
                                          DecDepth(n) % 2 = 0, DecAi(n), Other(DecAi(n)))])

Results0 == Results(<< >>, 0)
Results1 == Results(Results0, 1)
Results2 == Results(Results1, 2)
Results3 == Results(Results2, 3)
Results4 == Results(Results3, 4)
Results5 == Results(Results4, 5)
Results6 == Results(Results5, 6)
Results7 == Results(Results6, 7)
Results8 == Results(Results7, 8)

ResultsBelow(b) ==
  CASE Count(b, Empty) = 9 -> Results8
    [] Count(b, Empty) = 8 -> Results7
    [] Count(b, Empty) = 7 -> Results6
    [] Count(b, Empty) = 6 -> Results5
    [] Count(b, Empty) = 5 -> Results4
    [] Count(b, Empty) = 4 -> Results3
    [] Count(b, Empty) = 3 -> Results2
    [] Count(b, Empty) = 2 -> Results1
    [] Count(b, Empty) = 1 -> Results0
    [] OTHER -> << >>

\* A slip of the loops: the undo of lines 53 and 64 skipped for the move that is
\* returned, whose mark then stays on the caller's list.
minimax_move_left(b, depth, is_maximizing, ai_player_, human_player_) ==
  CHOOSE res \in
    { IF r.move = NoMove THEN r
      ELSE Result(r.score, r.move,
                  place(r.board, r.move, IF is_maximizing THEN ai_player_ ELSE human_player_))
      : r \in {minimax_body(ResultsBelow(b), b, depth, is_maximizing,
                            ai_player_, human_player_)} } : TRUE

minimax(b, depth, is_maximizing, ai_player_, human_player_) ==
  minimax_body(ResultsBelow(b), b, depth, is_maximizing, ai_player_, human_player_)

\* A slip of the fallback: the last available move instead of the first.
ai_move_last(b, ai_player_, human_player_) ==
  LET move == minimax(b, 0, TRUE, ai_player_, human_player_).move
  IN  IF move # NoMove THEN move
      ELSE IF Len(available_moves(b)) = 0 THEN IndexError
      ELSE available_moves(b)[Len(available_moves(b))]

\* lines 70-74
ai_move(b, ai_player_, human_player_) ==
  LET move == minimax(b, 0, TRUE, ai_player_, human_player_).move
  IN  IF move # NoMove THEN move
      ELSE IF Len(available_moves(b)) = 0 THEN IndexError
      ELSE available_moves(b)[1]

-----------------------------------------------------------------------------
(* The game itself, independent of the search: who wins by force, and in   *)
(* how many plies.  Used only to state what the engine is to achieve.      *)

HasLine(b, m) == \E k \in 1..Len(wins) : \A j \in 1..3 : b[wins[k][j]] = m
Full(b) == \A i \in Cells : b[i] # Empty
Over(b) == HasLine(b, "X") \/ HasLine(b, "O") \/ Full(b)
InProgress(b) == winner(b) = None /\ ~is_draw(b)
EmptyCells(b) == {i \in Cells : b[i] = Empty}

\* A position: a board and the side to move on it, as one integer.
Pos(b, mover) == Code(b) * 2 + (IF mover = "X" THEN 0 ELSE 1)
PosBoard(n) == Listed([i \in Cells |-> MarkOf(((n \div 2) \div (3 ^ i)) % 3)])
PosMover(n) == IF n % 2 = 0 THEN "X" ELSE "O"
Positions(e) ==
  {Pos(p[1], p[2]) :
     p \in {p \in {b \in SearchBoards : Count(b, Empty) = e} \X Marks :
              Count(p[1], p[2]) <= Count(p[1], Other(p[2]))}}

\* The value of a position for the side to move: res is 1 (it wins by force),
\* 0 (draw) or -1 (it loses by force); plies is the length of the game from here
\* when the winning side wins as fast as it can and the losing side holds out as
\* long as it can (0 for a draw).
Value(res, plies) == [res |-> res, plies |-> plies]
Least(S) == CHOOSE x \in S : \A y \in S : x <= y
Most(S) == CHOOSE x \in S : \A y \in S : x >= y
ValueOf(below, b, mover) ==
  IF HasLine(b, mover) THEN Value(1, 0)
  ELSE IF HasLine(b, Other(mover)) THEN Value(-1, 0)
  ELSE IF Full(b) THEN Value(0, 0)
  ELSE CHOOSE v \in
    { IF \E i \in DOMAIN kids : kids[i].res = -1
      THEN Value(1, 1 + Least({kids[i].plies : i \in {j \in DOMAIN kids : kids[j].res = -1}}))
      ELSE IF \E i \in DOMAIN kids : kids[i].res = 0
      THEN Value(0, 0)
      ELSE Value(-1, 1 + Most({kids[i].plies : i \in DOMAIN kids}))
      : kids \in { [i \in EmptyCells(b) |->
                      below[Pos([b EXCEPT ![i] = mover], Other(mover))]] } } : TRUE

Values(below, e) ==
  Listed([n \in Positions(e) |-> ValueOf(below, PosBoard(n), PosMover(n))])

Values0 == Values(<< >>, 0)
Values1 == Values(Values0, 1)
Values2 == Values(Values1, 2)
Values3 == Values(Values2, 3)
Values4 == Values(Values3, 4)
Values5 == Values(Values4, 5)
Values6 == Values(Values5, 6)
Values7 == Values(Values6, 7)
Values8 == Values(Values7, 8)
Values9 == Values(Values8, 9)

GameValue(b, mover) ==
  (CASE Count(b, Empty) = 9 -> Values9
     [] Count(b, Empty) = 8 -> Values8
     [] Count(b, Empty) = 7 -> Values7
     [] Count(b, Empty) = 6 -> Values6
     [] Count(b, Empty) = 5 -> Values5
     [] Count(b, Empty) = 4 -> Values4
     [] Count(b, Empty) = 3 -> Values3
     [] Count(b, Empty) = 2 -> Values2
     [] Count(b, Empty) = 1 -> Values1
     [] OTHER -> Values0)[Pos(b, mover)]

-----------------------------------------------------------------------------
(* Console input.  A line is one of the strings below; strip, lower, upper, *)
(* isdigit and int are given on these lines (lines 79-86, 103, 143, 148).   *)
(* "^2" stands for the one-character line U+00B2, SUPERSCRIPT TWO, a digit  *)
(* for str.isdigit that int does not accept.                                *)

SymbolLines == {"X", "O", "x", "o", "", "z"}
MoveLines == {"q", "QUIT", "exit", "abc", "", "-1", "0", "1", "2", "3", "4", "5",
              "6", "7", "8", "9", "10", " 5 ", "05", "^2"}
AgainLines == {"y", "YES", "n", ""}
FirstLines == {"you", "AI", "auto", ""}

strip(s) == IF s = " 5 " THEN "5" ELSE s
lower(s) == CASE s = "QUIT" -> "quit" [] s = "YES" -> "yes" [] s = "AI" -> "ai"
              [] s = "X" -> "x" [] s = "O" -> "o" [] OTHER -> s
upper(s) == CASE s = "x" -> "X" [] s = "o" -> "O" [] s = "z" -> "Z" [] OTHER -> s
isdigit(s) == s \in {"0", "1", "2", "3", "4", "5", "6", "7", "8", "9", "10", "05", "^2"}
int(s) == CASE s = "0" -> 0 [] s = "1" -> 1 [] s = "2" -> 2 [] s = "3" -> 3
            [] s = "4" -> 4 [] s = "5" -> 5 [] s = "6" -> 6 [] s = "7" -> 7
            [] s = "8" -> 8 [] s = "9" -> 9 [] s = "10" -> 10 [] s = "05" -> 5
            [] s = "^2" -> ValueError

-----------------------------------------------------------------------------
(* play(): lines 96-155.                                                   *)

Unbound == "unbound"          \* a local variable of play() not yet assigned

NoLast == [by |-> "none", pos |-> NoMove, search |-> NoMove, score |-> 0]

\* A slip of the loop: the win test of lines 126-134 left out.
announce_draw_only(b, human_player_) == IF is_draw(b) THEN "It's a draw." ELSE ""

\* A slip of the loop: the draw test of lines 135-139 left out.
announce_win_only(b, human_player_) ==
  IF winner(b) # None
  THEN IF winner(b) = human_player_ THEN "You win!" ELSE "AI wins. Better luck next time."
  ELSE ""

\* A slip of the loop: the test of line 129 inverted.
announce_swapped(b, human_player_) ==
  IF winner(b) # None
  THEN IF winner(b) # human_player_ THEN "You win!" ELSE "AI wins. Better luck next time."
  ELSE IF is_draw(b) THEN "It's a draw."
  ELSE ""

\* lines 126-139: what the loop prints once a mark is placed; "" if the round goes on
announce(b, human_player_) ==
  IF winner(b) # None
  THEN IF winner(b) = human_player_ THEN "You win!" ELSE "AI wins. Better luck next time."
  ELSE IF is_draw(b) THEN "It's a draw."
  ELSE ""

\* A slip of human_turn: the test of line 90 left out.
cell_free_unchecked(b, pos) == TRUE

\* A slip of human_turn: line 90 compares the cell with "X" instead of " ".
cell_free_of_x(b, pos) == b[pos] # "X"

\* line 90: human_turn takes the cell only if it is Empty
cell_free(b, pos) == b[pos] = Empty

\* A slip of the replay prompt: "auto" keeps the starter instead of alternating.
next_turn_kept(first_, turn_) ==
  IF first_ = "you" THEN "human" ELSE IF first_ = "ai" THEN "ai" ELSE turn_

\* lines 149-155
next_turn(first_, turn_) ==
  IF first_ = "you" THEN "human"
  ELSE IF first_ = "ai" THEN "ai"
  ELSE IF turn_ = "human" THEN "ai" ELSE "human"

\* lines 113-115
StartRound(starter) ==
  /\ board' = EmptyBoard
  /\ game_over' = FALSE
  /\ current' = starter
  /\ pc' = "move"
  /\ prev' = EmptyBoard
  /\ last' = NoLast
  /\ placed' = 0
  /\ ai_winning' = FALSE
  /\ origin' = EmptyBoard

\* lines 126-140, after `who` has put its mark on cell pos, making the board nb
AfterMove(nb, rec, thinking) ==
  /\ board' = nb
  /\ prev' = board
  /\ last' = rec
  /\ placed' = placed + 1
  /\ IF announce(nb, human_player) # ""
     THEN /\ out' = announce(nb, human_player)
          /\ game_over' = TRUE
          /\ pc' = "again"
          /\ current' = current
     ELSE /\ out' = thinking
          /\ game_over' = FALSE
          /\ pc' = "move"
          /\ current' = IF current = "human" THEN "ai" ELSE "human"

Init ==
  /\ pc = "symbol"
  /\ board = EmptyBoard
  /\ human_player = ""
  /\ ai_player = ""
  /\ turn = ""
  /\ current = ""
  /\ game_over = FALSE
  /\ out = "Tic-Tac-Toe vs Unbeatable AI (Minimax)"
  /\ prev = EmptyBoard
  /\ last = NoLast
  /\ placed = 0
  /\ ai_winning = FALSE
  /\ origin = EmptyBoard
  /\ first = Unbound

\* lines 102-115: one answer to "Choose your symbol"
ChooseSymbol ==
  /\ pc = "symbol"
  /\ \E raw \in SymbolLines :
       LET sym == IF upper(strip(raw)) = "" THEN "X" ELSE upper(strip(raw))
       IN  /\ human_player' = sym
           /\ IF sym \notin {"X", "O"}
              THEN /\ out' = "Please type X or O."
                   /\ UNCHANGED <<pc, board, ai_player, turn, current, game_over,
                                  prev, last, placed, ai_winning, origin, first>>
              ELSE /\ ai_player' = (IF sym = "X" THEN "O" ELSE "X")
                   /\ turn' = (IF sym = "X" THEN "human" ELSE "ai")
                   /\ out' = (IF sym = "X" THEN "You go first." ELSE "AI goes first.")
                   /\ StartRound(IF sym = "X" THEN "human" ELSE "ai")
                   /\ first' = first

\* lines 119-120, 76-94, 126-140: one answer to "Enter your move"
HumanTurn ==
  /\ pc = "move"
  /\ current = "human"
  /\ \E raw \in MoveLines :
       LET s == strip(raw)
           pos == int(s) - 1
       IN  IF lower(s) \in {"q", "quit", "exit"}
           THEN /\ out' = "Exiting game."
                /\ pc' = "exit"
                /\ UNCHANGED <<board, human_player, ai_player, turn, current, game_over,
                               prev, last, placed, ai_winning, origin, first>>
           ELSE IF ~isdigit(s)
           THEN /\ out' = "Please enter a number between 1 and 9."
                /\ UNCHANGED <<pc, board, human_player, ai_player, turn, current,
                               game_over, prev, last, placed, ai_winning, origin, first>>
           ELSE IF int(s) = ValueError
           THEN /\ out' = "ValueError: invalid literal for int() with base 10"
                /\ pc' = "exit"
                /\ UNCHANGED <<board, human_player, ai_player, turn, current, game_over,
                               prev, last, placed, ai_winning, origin, first>>
           ELSE IF pos < 0 \/ pos > 8
           THEN /\ out' = "Number must be between 1 and 9."
                /\ UNCHANGED <<pc, board, human_player, ai_player, turn, current,
                               game_over, prev, last, placed, ai_winning, origin, first>>
           ELSE IF ~cell_free(board, pos)
           THEN /\ out' = "That cell is already taken. Choose another."
                /\ UNCHANGED <<pc, board, human_player, ai_player, turn, current,
                               game_over, prev, last, placed, ai_winning, origin, first>>
           ELSE /\ AfterMove(place(board, pos, human_player),
                             [by |-> "human", pos |-> pos, search |-> NoMove, score |-> 0],
                             "")
                /\ UNCHANGED <<human_player, ai_player, turn, ai_winning, origin, first>>

\* lines 121-124, 126-140
AiTurn ==
  /\ pc = "move"
  /\ current = "ai"
  /\ \E r \in {minimax(board, 0, TRUE, ai_player, human_player)} :
     \E move \in {ai_move(board, ai_player, human_player)} :
       IF move = IndexError
       THEN /\ out' = "IndexError: list index out of range"
            /\ pc' = "exit"
            /\ UNCHANGED <<board, human_player, ai_player, turn, current, game_over,
                           prev, last, placed, ai_winning, origin, first>>
       ELSE /\ AfterMove(place(board, move, ai_player),
                         [by |-> "ai", pos |-> move, search |-> r.move, score |-> r.score],
                         "AI is thinking...")
            /\ ai_winning' = (ai_winning \/ GameValue(board, ai_player).res = 1)
            /\ UNCHANGED <<human_player, ai_player, turn, origin, first>>

\* lines 143-146: one answer to "Play again?"
PlayAgain ==
  /\ pc = "again"
  /\ \E raw \in AgainLines :
       IF lower(strip(raw)) \notin {"y", "yes"}
       THEN /\ out' = "Thanks for playing."
            /\ pc' = "exit"
            /\ UNCHANGED <<board, human_player, ai_player, turn, current, game_over,
                           prev, last, placed, ai_winning, origin, first>>
       ELSE /\ out' = "Who goes first next game? (you/ai/auto) [auto]: "
            /\ pc' = "first"
            /\ UNCHANGED <<board, human_player, ai_player, turn, current, game_over,
                           prev, last, placed, ai_winning, origin, first>>

\* lines 148-155, 113-115: one answer to "Who goes first next game?"
WhoFirst ==
  /\ pc = "first"
  /\ \E raw \in FirstLines :
       /\ first' = lower(strip(raw))
       /\ turn' = next_turn(first', turn)
       /\ out' = ""
       /\ StartRound(turn')
       /\ UNCHANGED <<human_player, ai_player>>

Next == ChooseSymbol \/ HumanTurn \/ AiTurn \/ PlayAgain \/ WhoFirst

Spec == Init /\ [][Next]_vars

-----------------------------------------------------------------------------
(* The engine on its own: ai_move called on every board of alternating     *)
(* play with the caller to move (finished boards included), and the engine *)
(* then playing both sides, each side calling ai_move with its own mark as *)
(* ai_player.                                                              *)

InitSearch ==
  /\ pc = "call"
  /\ board \in SearchBoards
  /\ ai_player \in Marks
  /\ human_player = Other(ai_player)
  /\ Count(board, ai_player) <= Count(board, human_player)
  /\ turn = "ai"
  /\ current = "ai"
  /\ game_over = FALSE
  /\ out = ""
  /\ prev = board
  /\ last = NoLast
  /\ placed = 0
  /\ ai_winning = FALSE
  /\ origin = board
  /\ first = Unbound

\* lines 70-74: the call, which leaves the board as the search left it
Search ==
  /\ pc = "call"
  /\ \E r \in {minimax(board, 0, TRUE, ai_player, human_player)} :
       /\ board' = r.board
       /\ last' = [by |-> "ai", pos |-> ai_move(board, ai_player, human_player),
                   search |-> r.move, score |-> r.score]
  /\ prev' = board
  /\ pc' = "returned"
  /\ UNCHANGED <<human_player, ai_player, turn, current, game_over, out, placed,
                 ai_winning, origin, first>>

\* line 124 and lines 126-139, then the other side's turn with the roles exchanged
Reply ==
  /\ pc = "returned"
  /\ InProgress(board)
  /\ last.pos \in Cells
  /\ board' = place(board, last.pos, ai_player)
  /\ ai_player' = human_player
  /\ human_player' = ai_player
  /\ placed' = placed + 1
  /\ game_over' = (announce(board', human_player) # "")
  /\ pc' = IF game_over' THEN "over" ELSE "call"
  /\ UNCHANGED <<turn, current, out, prev, last, ai_winning, origin, first>>

NextSearch == Search \/ Reply

SpecSearch == InitSearch /\ [][NextSearch]_vars

-----------------------------------------------------------------------------
(* The boards the search visits: one path of the recursion of minimax from *)
(* the call of line 72 on the empty board.  placed is depth, current is    *)
(* "ai" when is_maximizing and "human" when not.                           *)

InitVisit ==
  /\ pc = "visit"
  /\ board = EmptyBoard
  /\ ai_player \in Marks
  /\ human_player = Other(ai_player)
  /\ turn = "ai"
  /\ current = "ai"
  /\ game_over = FALSE
  /\ out = ""
  /\ prev = EmptyBoard
  /\ last = NoLast
  /\ placed = 0
  /\ ai_winning = FALSE
  /\ origin = EmptyBoard
  /\ first = Unbound

\* lines 39-45 find no winner and no draw, and the loop of lines 50-52 or 61-63
\* puts the mark of the side to move on an available move and calls minimax with
\* depth + 1 and is_maximizing flipped
Descend ==
  /\ pc = "visit"
  /\ winner(board) \notin {ai_player, human_player}
  /\ ~is_draw(board)
  /\ \E k \in 1..Len(available_moves(board)) :
       LET move == available_moves(board)[k]
       IN  /\ board' = place(board, move, IF current = "ai" THEN ai_player ELSE human_player)
           /\ last' = [by |-> current, pos |-> move, search |-> NoMove, score |-> 0]
  /\ prev' = board
  /\ placed' = placed + 1
  /\ current' = IF current = "ai" THEN "human" ELSE "ai"
  /\ UNCHANGED <<pc, human_player, ai_player, turn, game_over, out, ai_winning,
                 origin, first>>

NextVisit == Descend

SpecVisit == InitVisit /\ [][NextVisit]_vars

-----------------------------------------------------------------------------
(* play() and the recursion of minimax, each run to its end.  The          *)
(* interpreter always takes the next step of an AI turn and of a search;   *)
(* a human turn ends only if the human at some time enters a legal move,   *)
(* which is assumed here; the prompts between rounds may stay unanswered.   *)

\* lines 93-94: the answer to "Enter your move" that human_turn accepts
HumanMoves == HumanTurn /\ board' # board

InitFair == Init \/ InitVisit

NextFair == Next \/ NextVisit

FairSpec ==
  InitFair /\ [][NextFair]_vars
    /\ WF_vars(AiTurn) /\ WF_vars(HumanMoves) /\ WF_vars(Descend)

-----------------------------------------------------------------------------
(* Properties.                                                             *)

Returned == pc = "returned"
\* ai_move has just returned on a board in progress (prev is the board it was called on)
ReturnedInProgress == pc = "returned" /\ InProgress(prev)
\* the value, for the human, of the board after the AI puts its mark on cell i of prev
After(i) == GameValue(place(prev, i, ai_player), human_player)
\* the score the search gives to cell i of prev: the recursive call of line 52
ScoreOf(i) == minimax(place(prev, i, ai_player), 1, FALSE, ai_player, human_player).score
RoundOver == game_over /\ pc \in {"again", "first", "exit"}

\* C1: in play(), whatever legal cells the human takes and whoever starts with
\* whichever symbol, the board never shows a complete triple of the human's mark,
\* and "You win!" is never printed.
C1_EngineNeverLoses ==
  /\ human_player \in Marks => winner(board) # human_player /\ ~HasLine(board, human_player)
  /\ out # "You win!"

\* a round has ended in which the human, playing O, moved first
C1_Witness ==
  RoundOver /\ human_player = "O" /\ turn = "human" /\ placed >= 5 /\ winner(board) # "O"

\* C2: when the engine plays both sides from the empty board, every call returns
\* an Empty cell (so the game goes on until it is over), and the game is over only
\* on a full board with no winner: a draw.
C2_SelfPlayDraws ==
  origin = EmptyBoard =>
    /\ placed = 9 - Count(board, Empty)
    /\ pc = "returned" => InProgress(board) /\ last.pos \in Cells /\ board[last.pos] = Empty
    /\ pc = "over" => Full(board) /\ winner(board) = None /\ is_draw(board)

C2_Witness == origin = EmptyBoard /\ pc = "over" /\ placed = 9 /\ is_draw(board)

\* C3: once an AI turn of the round has begun on a board the AI wins by force, the
\* board stays won by force for the AI after every move of either side, and the
\* round, when it ends, ends with the AI's triple complete.
C3_WinsWhenAllowed ==
  ai_winning =>
    IF game_over
    THEN winner(board) = ai_player /\ (pc = "again" => out = "AI wins. Better luck next time.")
    ELSE IF current = "ai" THEN GameValue(board, ai_player).res = 1
    ELSE GameValue(board, human_player).res = -1

\* a round the AI won after the human let it: the board was not won by force
\* from the start
C3_Witness ==
  ai_winning /\ game_over /\ winner(board) = ai_player /\ placed >= 6

\* C4: called on a board in progress where some Empty cell completes a triple of
\* the AI's mark, ai_move returns such a cell; on X X _ / O O _ / _ _ _ with the
\* AI playing X it returns cell 2.
WinsAt(b, i, m) == b[i] = Empty /\ HasLine(place(b, i, m), m)
Scenario2 == [i \in Cells |-> IF i \in {0, 1} THEN "X" ELSE IF i \in {3, 4} THEN "O" ELSE Empty]
C4_ImmediateWinTaken ==
  /\ (ReturnedInProgress /\ \E i \in Cells : WinsAt(prev, i, ai_player))
       => last.pos \in Cells /\ WinsAt(prev, last.pos, ai_player)
  /\ (Returned /\ prev = Scenario2 /\ ai_player = "X") => last.pos = 2

\* the AI wins at once although a cell of lower index wins too, only later
C4_Witness ==
  /\ ReturnedInProgress
  /\ WinsAt(prev, last.pos, ai_player)
  /\ \E i \in EmptyCells(prev) :
       i < last.pos /\ ~WinsAt(prev, i, ai_player) /\ After(i).res = -1

\* C5: called on a board in progress, ai_move returns a cell after which the human
\* does not win by force, if there is one; if the human wins by force after every
\* cell, it returns a cell after which the human's fastest win takes the most plies.
C5_LossAvoidedOrDelayed ==
  ReturnedInProgress =>
    /\ last.pos \in EmptyCells(prev)
    /\ IF \E i \in EmptyCells(prev) : After(i).res # 1
       THEN After(last.pos).res # 1
       ELSE After(last.pos).plies = Most({After(i).plies : i \in EmptyCells(prev)})

\* every cell loses, some sooner than others, and the AI took one of the slowest
C5_Witness ==
  /\ ReturnedInProgress
  /\ \A i \in EmptyCells(prev) : After(i).res = 1
  /\ \E i \in EmptyCells(prev) : After(i).plies < After(last.pos).plies

\* C6: called on a board in progress, ai_move returns the lowest-index cell among
\* the Empty cells whose score is the greatest; on the empty board every cell
\* scores 0 and it returns cell 0.
C6_LowestIndexOfBest ==
  /\ ReturnedInProgress =>
       /\ last.pos \in EmptyCells(prev)
       /\ last.pos = Least({i \in EmptyCells(prev) :
                              ScoreOf(i) = Most({ScoreOf(j) : j \in EmptyCells(prev)})})
  /\ (Returned /\ prev = EmptyBoard) =>
       last.pos = 0 /\ \A i \in Cells : ScoreOf(i) = 0

\* several cells share the greatest score and the lowest of them is not the
\* lowest Empty cell
C6_Witness ==
  /\ ReturnedInProgress
  /\ Cardinality({i \in EmptyCells(prev) : ScoreOf(i) = ScoreOf(last.pos)}) >= 2
  /\ \E i \in EmptyCells(prev) : i < last.pos

\* C7: called on a board in progress, ai_move returns an index in 0..8 of a cell
\* that is Empty on that board, and it is the move the search returned, which is
\* not None.
C7_MoveFromSearch ==
  ReturnedInProgress =>
    /\ last.pos \in Cells
    /\ prev[last.pos] = Empty
    /\ last.search # NoMove
    /\ last.search = last.pos

C7_Witness ==
  ReturnedInProgress /\ Count(prev, Empty) = 1 /\ last.search = last.pos /\ prev[last.pos] = Empty

\* C8, as claimed: whenever the search returns no move, ai_move returns the
\* lowest-index Empty cell and does not fail.
C8_FallbackAlwaysReturns ==
  (Returned /\ last.search = NoMove) =>
    /\ last.pos # IndexError
    /\ EmptyCells(prev) # {}
    /\ last.pos = Least(EmptyCells(prev))

\* C8, amended: the search returns no move exactly on a finished board; ai_move
\* then returns the lowest-index Empty cell if the board has one, and fails with
\* IndexError if the board is full.
C8_FallbackUnlessFull ==
  Returned =>
    /\ last.search = NoMove <=> ~InProgress(prev)
    /\ last.search = NoMove =>
         IF EmptyCells(prev) = {} THEN last.pos = IndexError
         ELSE last.pos = Least(EmptyCells(prev))

\* a won board with several cells left: the fallback returns the first of them
C8_Witness ==
  /\ Returned /\ last.search = NoMove /\ winner(prev) # None
  /\ Cardinality(EmptyCells(prev)) >= 2 /\ last.pos = Least(EmptyCells(prev))

\* C9: every mark goes to a cell in 0..8 that was Empty, the number of non-Empty
\* cells is the number of marks placed in the round and never exceeds 9, and
\* until the next round starts a non-Empty cell keeps its mark.
C9_PlacedOnEmpty ==
  /\ placed = 9 - Count(board, Empty)
  /\ placed <= 9
  /\ last.by # "none" =>
       /\ last.pos \in Cells
       /\ prev[last.pos] = Empty
       /\ board = place(prev, last.pos, IF last.by = "human" THEN human_player ELSE ai_player)
       /\ \A i \in Cells : prev[i] # Empty => board[i] = prev[i]
C9_MarksKept ==
  pc # "first" => \A i \in Cells : board[i] # Empty => board'[i] = board[i]
C9_NoCellOverwritten == [](C9_PlacedOnEmpty) /\ [][C9_MarksKept]_vars

\* a round with all 9 cells marked, the human having placed the last mark
C9_Witness == placed = 9 /\ Full(board) /\ last.by = "human"

\* C10: the two marks never both have a complete triple, and winner(board) names
\* a mark exactly when that mark, and only that mark, has one.
C10_OneWinner ==
  /\ ~(HasLine(board, "X") /\ HasLine(board, "O"))
  /\ \A m \in Marks : winner(board) = m <=> HasLine(board, m)
  /\ winner(board) \in Marks \cup {None}

C10_Witness == game_over /\ winner(board) = ai_player /\ HasLine(board, ai_player) /\ placed >= 5

\* C11: when ai_move returns, the board is cell for cell the board it was called
\* on; so it is after minimax called on that board at any depth, with the side to
\* move maximizing (even depth) or minimizing (odd depth); and after each recursive
\* call of lines 52 and 63, setting the cell back to Empty gives the board as it was
\* before the mark was put there.
SearchAt(b, depth, mover) ==
  IF depth % 2 = 0 THEN minimax(b, depth, TRUE, mover, Other(mover))
  ELSE minimax(b, depth, FALSE, Other(mover), mover)
C11_SearchLeavesBoard ==
  Returned =>
    /\ board = prev
    /\ \A i \in Cells : board[i] = prev[i]
    /\ \A depth \in 0..(9 - Count(prev, Empty)) :
         SearchAt(prev, depth, ai_player).board = prev
    /\ \A i \in (IF InProgress(prev) THEN EmptyCells(prev) ELSE {}) :
         /\ undo(SearchAt(place(prev, i, ai_player), 1, human_player).board, i) = prev
         /\ undo(place(prev, i, ai_player), i) = prev

\* a search through five or more Empty cells that found a move and left no mark
C11_Witness ==
  /\ Returned /\ InProgress(prev) /\ Count(prev, Empty) >= 5
  /\ last.search \in Cells /\ board = prev /\ board[last.search] = Empty

\* the mark of the player who starts the round
StarterMark == IF turn = "human" THEN human_player ELSE ai_player
FirstMarkPlaced == pc \in {"move", "exit"} /\ placed = 1

\* C12, as claimed: in every round, replayed rounds included, the first mark put
\* on the empty board is X.
C12_XGoesFirst == FirstMarkPlaced => board[last.pos] = "X" /\ Count(board, "O") = 0

\* C12, amended: the first mark of a round is the mark of the player turn names.
\* In the first round that player is the one whose symbol is X.  In a replayed
\* round it is the human after the answer "you", the AI after the answer "ai", and
\* after any other answer the player who did not start the round before, whatever
\* the symbols are.
C12_StarterPlaced ==
  /\ FirstMarkPlaced =>
       /\ last.by = turn
       /\ board = place(EmptyBoard, last.pos, StarterMark)
       /\ first = Unbound => StarterMark = "X"
       /\ first = "you" => turn = "human" /\ board[last.pos] = human_player
       /\ first = "ai" => turn = "ai" /\ board[last.pos] = ai_player
  /\ pc = "move" /\ placed = 0 => current = turn
C12_StarterChosen ==
  /\ pc = "symbol" /\ pc' = "move" => turn' = (IF human_player' = "X" THEN "human" ELSE "ai")
  /\ pc = "first" => /\ pc' = "move" /\ board' = EmptyBoard /\ placed' = 0
                     /\ first' \notin {"you", "ai"} => turn' # turn
  /\ pc \notin {"symbol", "first"} => turn' = turn /\ first' = first
C12_FirstMoverAsChosen == [](C12_StarterPlaced) /\ [][C12_StarterChosen]_vars

\* a replayed round that O opened: the AI, playing O, after an answer that is
\* neither "you" nor "ai"
C12_Witness ==
  /\ FirstMarkPlaced /\ first \notin {Unbound, "you", "ai"}
  /\ turn = "ai" /\ ai_player = "O" /\ board[last.pos] = "O"

\* C13: once winner(board) is not None or is_draw(board) holds, the round is over
\* (game_over is set and the program is at the "Play again?" prompt or beyond), no
\* step puts a mark on that board, and the only step that changes the board starts
\* a new round on a board of 9 Empty cells.
Terminal(b) == winner(b) # None \/ is_draw(b)
C13_TerminalIsOver ==
  Terminal(board) => game_over /\ pc \in {"again", "first", "exit"}
C13_TerminalKept ==
  Terminal(board) =>
    \/ board' = board /\ placed' = placed /\ pc' # "move"
    \/ /\ pc = "first" /\ pc' = "move"
       /\ board' = EmptyBoard /\ placed' = 0 /\ ~game_over' /\ InProgress(board')
C13_NoMoveAfterEnd == [](C13_TerminalIsOver) /\ [][C13_TerminalKept]_vars

\* a new round is about to start from a drawn board and from a won board
C13_Witness ==
  /\ pc = "first" /\ Terminal(board) /\ placed \in {5, 9}
  /\ (placed = 9 => is_draw(board)) /\ (placed = 5 => winner(board) = ai_player)

\* the winning triples of wins that are fully marked on b
CompleteTriples(b) == {k \in 1..Len(wins) : complete(b, wins[k])}

\* winner with the triples scanned from the last to the first
RECURSIVE winner_back(_, _)
winner_back(b, k) ==
  IF k < 1 THEN None
  ELSE IF complete(b, wins[k]) THEN b[wins[k][1]]
  ELSE winner_back(b, k - 1)

\* C14, as claimed: on every board reached by alternating legal moves that stop
\* at the first win, at most one of the 8 triples holds three equal marks.
C14_AtMostOneTriple == Cardinality(CompleteTriples(board)) <= 1

\* C14, amended: on every such board at most two triples are fully marked; all
\* fully marked triples hold the same mark, that of the side that moved last, and
\* pass through the cell marked last; so winner finds the same mark whatever the
\* order of its scan.
C14_OneMarkWins ==
  /\ Cardinality(CompleteTriples(board)) <= 2
  /\ \A k \in CompleteTriples(board) :
       /\ board[wins[k][1]] \in Marks
       /\ last.pos \in {wins[k][1], wins[k][2], wins[k][3]}
       /\ board[wins[k][1]] = board[last.pos]
       /\ winner(board) = board[wins[k][1]]
  /\ CompleteTriples(board) = {} => winner(board) = None
  /\ winner_back(board, Len(wins)) = winner(board)

\* the ninth mark completes both diagonals at once
C14_Witness ==
  /\ Cardinality(CompleteTriples(board)) = 2
  /\ complete(board, wins[7]) /\ complete(board, wins[8])
  /\ placed = 9 /\ last.pos = 4

\* C15, as claimed: on every board reached in play(), the board is in progress
\* (no winner, no draw) exactly when it has an Empty cell.
C15_InProgressIffEmptyCell ==
  InProgress(board) <=> Len(available_moves(board)) > 0

\* C15, amended: a board in progress has an Empty cell; a board with an Empty cell
\* is in progress exactly when no triple is complete on it (a won board may have
\* Empty cells left); and on every board a turn is taken on both hold.
C15_InProgressIffEmptyAndNoWinner ==
  /\ InProgress(board) => Len(available_moves(board)) > 0
  /\ InProgress(board) <=> (winner(board) = None /\ Len(available_moves(board)) > 0)
  /\ pc = "move" => InProgress(board) /\ Len(available_moves(board)) > 0
  /\ RoundOver => ~InProgress(board)

\* a turn on a board with one Empty cell left, and no winner yet
C15_Witness ==
  /\ pc = "move" /\ Len(available_moves(board)) = 1 /\ InProgress(board)
  /\ winner(board) = None

\* C16: at a human turn, an entry is the quit command, or it is rejected (not a
\* number, a number outside 1..9, a number naming a non-Empty cell): then no cell
\* changes, the turn is not passed and the human is prompted again; or it is a
\* number n in 1..9 naming an Empty cell: then cell n - 1, and no other cell, gets
\* human_player and the turn ends.
HumanQuits == pc' = "exit" /\ out' = "Exiting game." /\ board' = board
HumanPromptedAgain ==
  /\ board' = board /\ placed' = placed
  /\ pc' = "move" /\ current' = "human"
  /\ out' \in {"Please enter a number between 1 and 9.", "Number must be between 1 and 9.",
               "That cell is already taken. Choose another."}
HumanPlaces ==
  \E n \in 1..9 :
    /\ board[n - 1] = Empty
    /\ board' = place(board, n - 1, human_player)
    /\ \A i \in Cells \ {n - 1} : board'[i] = board[i]
    /\ placed' = placed + 1
    /\ (pc' = "move" /\ current' = "ai") \/ (pc' = "again" /\ game_over')
C16_HumanTurnStep ==
  (pc = "move" /\ current = "human") => HumanQuits \/ HumanPromptedAgain \/ HumanPlaces
C16_RejectedInputChangesNothing == [][C16_HumanTurnStep]_vars

\* C17: a round has at most 9 placements, one per non-Empty cell.  If the human
\* enters a legal move at each of their turns, every round ends with a win or a
\* draw announced (unless the human leaves the program at the move prompt).
\* Every path of the recursion of minimax ends on a board with a winner or a
\* draw, at a depth that is at most the number of Empty cells of the board
\* minimax was first called on.
Announcements == {"You win!", "AI wins. Better luck next time.", "It's a draw."}
C17_Bounded ==
  /\ placed <= 9
  /\ placed = Count(origin, Empty) - Count(board, Empty)
  /\ pc = "visit" => placed <= Count(origin, Empty)
C17_RoundEnds ==
  (pc = "move") ~> ((pc = "again" /\ Terminal(board) /\ out \in Announcements) \/ pc = "exit")
C17_SearchEnds == (pc = "visit") ~> (pc = "visit" /\ Terminal(board))
C17_EveryRoundTerminates == [](C17_Bounded) /\ C17_RoundEnds /\ C17_SearchEnds

\* a round that took all 9 placements, the human placing the last, and ended
C17_Witness ==
  /\ pc = "again" /\ placed = 9 /\ last.by = "human"
  /\ Terminal(board) /\ out \in Announcements

\* the call minimax(b, depth, ...) with self to move on b: self is ai_player of the
\* call at even depth and human_player of the call at odd depth
CallAi(depth, self) == IF depth % 2 = 0 THEN self ELSE Other(self)

\* C18: minimax called at depth d on a board that ai_player of the call has won
\* returns score 10 - d, on a board human_player of the call has won d - 10, on a
\* draw 0, each with move None.  The root call on a board in progress returns a
\* move and a score in -9..9, never -999 or 999: 10 - k if the AI wins by force
\* in k plies, k - 10 if the human wins by force in k plies, 0 if neither does.
C18_AtDepth(d) ==
  LET r == SearchAt(prev, d, ai_player)
      ai == CallAi(d, ai_player)
  IN  /\ winner(prev) = ai => r.score = 10 - d /\ r.move = NoMove
      /\ winner(prev) = Other(ai) => r.score = d - 10 /\ r.move = NoMove
      /\ is_draw(prev) => r.score = 0 /\ r.move = NoMove
      /\ r.score \notin {-999, 999}
C18_TerminalScoring ==
  Returned =>
    /\ \A d \in 0..(9 - Count(prev, Empty)) : C18_AtDepth(d)
    /\ InProgress(prev) =>
         /\ last.search # NoMove
         /\ last.score \in -9..9
         /\ LET v == GameValue(prev, ai_player)
            IN  last.score = (IF v.res = 1 THEN 10 - v.plies
                              ELSE IF v.res = -1 THEN v.plies - 10 ELSE 0)

\* the AI loses by force in 4 plies and the root call returns -6
C18_Witness ==
  /\ Returned /\ InProgress(prev) /\ last.score = -6
  /\ GameValue(prev, ai_player).res = -1 /\ GameValue(prev, ai_player).plies = 4

\* the mark of the player who placed the last mark
LastMark == IF last.by = "human" THEN human_player ELSE ai_player
JustEnded == pc = "again"

\* C19: when a round ends with a win announced, the mark with the complete triple
\* is the mark of the player who placed the last mark, the triple passes through
\* the cell marked last, "You win!" is printed if and only if that player is the
\* human, and the other mark has no triple; "It's a draw." is printed only on a
\* board with no Empty cell and no complete triple; and a ninth mark that
\* completes a triple is announced as a win.  The same holds of what lines 126-139
\* would print on every board of alternating play, where, unlike in a round
\* against the engine, the ninth mark can complete a triple.
WinAnnounced(by) == IF by = "human" THEN "You win!" ELSE "AI wins. Better luck next time."
C19_Matches(a) ==
  /\ a \in Announcements \cup {""}
  /\ a = "" <=> InProgress(board)
  /\ a \in Announcements \ {"It's a draw."} =>
       /\ winner(board) = LastMark
       /\ board[last.pos] = LastMark
       /\ HasLine(board, LastMark) /\ ~HasLine(prev, LastMark)
       /\ ~HasLine(board, Other(LastMark))
       /\ a = WinAnnounced(last.by)
  /\ a = "It's a draw." =>
       /\ Full(board) /\ placed = 9
       /\ ~HasLine(board, "X") /\ ~HasLine(board, "O")
  /\ (placed = 9 /\ (HasLine(board, "X") \/ HasLine(board, "O"))) => a = WinAnnounced(last.by)
C19_ResultMatchesLastMove ==
  /\ JustEnded => out # "" /\ C19_Matches(out)
  /\ (pc = "visit" /\ placed >= 1) => C19_Matches(announce(board, human_player))

\* the ninth mark completes a triple: a win is announced, not a draw
C19_Witness ==
  /\ pc = "visit" /\ placed = 9 /\ Full(board) /\ winner(board) = LastMark
  /\ announce(board, human_player) = WinAnnounced(last.by)

\* the Empty cells of b that complete a triple of mark m
Threats(b, m) == {i \in Cells : WinsAt(b, i, m)}

\* C20: called on a board in progress on which no Empty cell completes a triple
\* of the AI's mark and exactly one Empty cell completes a triple of the human's
\* mark, ai_move returns that cell.
C20_BlocksSingleThreat ==
  (/\ ReturnedInProgress
   /\ Threats(prev, ai_player) = {}
   /\ Cardinality(Threats(prev, human_player)) = 1)
    => /\ last.pos \in Threats(prev, human_player)
       /\ last.search = last.pos
       /\ Threats(place(prev, last.pos, ai_player), human_player) = {}

\* the AI blocks the one threat although the human then still wins by force, and
\* the threat is not the lowest Empty cell
C20_Witness ==
  /\ ReturnedInProgress
  /\ Threats(prev, ai_player) = {}
  /\ Threats(prev, human_player) = {last.pos}
  /\ last.score < 0
  /\ \E i \in EmptyCells(prev) : i < last.pos

====
